---- MODULE Spec2Model ----
(***************************************************************************)
(* Model of the Header component (components/Header.vue) and of the dev    *)
(* server setting of nuxt.config.ts.                                       *)
(*                                                                         *)
(* Header.vue, script setup:                                               *)
(*     const scrolled = ref(false)                                         *)
(*     onMounted(() => {                                                   *)
(*       window.addEventListener('scroll', () => {                         *)
(*         scrolled.value = window.scrollY > 0                             *)
(*       })                                                                *)
(*     })                                                                  *)
(*                                                                         *)
(* The browser side is modelled as far as the component uses it: the       *)
(* window's scroll offset, the window's listener list (in registration     *)
(* order), and the dispatch of one scroll event to the listeners that were *)
(* registered when the dispatch began, one callback at a time.             *)
(***************************************************************************)
EXTENDS Integers, Sequences, FiniteSets

\* ---------------------------------------------------------------- bounds
\* Number of Header instances created during a run (every mount cycle of
\* the component creates a fresh instance with a fresh ref).
MaxInst == 2
\* Largest scroll offset.
MaxY == 1

Inst == 1..MaxInst
\* window.scrollY; -1 stands for the negative offsets of elastic overscroll.
Offsets == {-1} \cup (0..MaxY)

\* ------------------------------------------------------- nuxt.config.ts
devServerPort == 4200

\* ------------------------------------------------------------- template
NavLinks == <<"#home", "#about", "#projects", "#skills", "#contact">>

NoMarkup == [headerClass |-> "", links |-> <<>>, button |-> ""]

\* Mutants of Render: a class bound to the flag; a link shown only at the top.
RenderScrolledClass(s) ==
    [headerClass |-> IF s THEN "header scrolled" ELSE "header",
     links       |-> NavLinks,
     button      |-> "Get in Touch"]

RenderDropsContact(s) ==
    [headerClass |-> "header",
     links       |-> IF s THEN SubSeq(NavLinks, 1, 4) ELSE NavLinks,
     button      |-> "Get in Touch"]

\* The template of Header.vue rendered with the flag having value s.
\* The template has no binding at all, so s is not used.
Render(s) ==
    [headerClass |-> "header",
     links       |-> NavLinks,
     button      |-> "Get in Touch"]

\* ------------------------------------------------------------ variables
VARIABLES
    lifecycle,   \* per instance: "none", "setup", "mounted", "unmounted"
    scrolled,    \* per instance: the value of the ref `scrolled`
    rendered,    \* per instance: the markup rendered from the template
    listeners,   \* the window's event listener list, in registration order
    scrollY,     \* window.scrollY
    pending,     \* a scroll event is waiting to be dispatched
    queue,       \* listeners still to be called by the running dispatch
    seen,        \* per instance: the last two offsets its callback read
    called,      \* the instances called by the latest dispatch so far
    failed,      \* a callback has thrown
    serving      \* <<port>> while the dev server runs, else <<>>

vars == <<lifecycle, scrolled, rendered, listeners, scrollY, pending, queue,
          seen, called, failed, serving>>

\* ---------------------------------------------------- addEventListener
\* The default of the `passive` option when no options are given: true only
\* for the touch and wheel events on window, document and body.
DefaultPassive(target, type) ==
    /\ target \in {"window", "document", "body"}
    /\ type \in {"touchstart", "touchmove", "wheel", "mousewheel"}

\* window.addEventListener('scroll', cb) as called by instance i: two
\* arguments, no options.
ScrollListener(i) ==
    [owner   |-> i,
     target  |-> "window",
     type    |-> "scroll",
     passive |-> DefaultPassive("window", "scroll")]

Last(s) == s[Len(s)]

LastTwo(s) == IF Len(s) > 2 THEN Tail(s) ELSE s

Owners(ls) == {ls[k].owner : k \in 1..Len(ls)}

ListenersOf(i) == {k \in 1..Len(listeners) : listeners[k].owner = i}

\* ----------------------------------------------------------------- Init
Init ==
    /\ lifecycle = [i \in Inst |-> "none"]
    /\ scrolled  = [i \in Inst |-> FALSE]
    /\ rendered  = [i \in Inst |-> NoMarkup]
    /\ listeners = <<>>
    /\ scrollY   = 0
    /\ pending   = FALSE
    /\ queue     = <<>>
    /\ seen      = [i \in Inst |-> <<>>]
    /\ called    = {}
    /\ failed    = FALSE
    /\ serving   = <<>>

\* No script runs while a dispatch is calling listeners.
Idle == queue = <<>>

\* -------------------------------------------------------------- actions
\* Mutant of Setup: the ref starts as true.
SetupRefTrue(i) ==
    /\ Idle
    /\ lifecycle[i] = "none"
    /\ \A j \in Inst : j < i => lifecycle[j] # "none"
    /\ lifecycle' = [lifecycle EXCEPT ![i] = "setup"]
    /\ scrolled'  = [scrolled EXCEPT ![i] = TRUE]
    /\ rendered'  = [rendered EXCEPT ![i] = Render(TRUE)]
    /\ UNCHANGED <<listeners, scrollY, pending, queue, seen, called, failed,
                   serving>>

\* script setup of a new instance: `const scrolled = ref(false)`, the
\* onMounted hook is recorded, and the template is rendered.
Setup(i) ==
    /\ Idle
    /\ lifecycle[i] = "none"
    /\ \A j \in Inst : j < i => lifecycle[j] # "none"
    /\ lifecycle' = [lifecycle EXCEPT ![i] = "setup"]
    /\ scrolled'  = [scrolled EXCEPT ![i] = FALSE]
    /\ rendered'  = [rendered EXCEPT ![i] = Render(FALSE)]
    /\ UNCHANGED <<listeners, scrollY, pending, queue, seen, called, failed,
                   serving>>

\* Mutant of OnMounted: the listener is added with {passive: true} and the
\* hook body runs twice.
OnMountedTwicePassive(i) ==
    /\ Idle
    /\ lifecycle[i] = "setup"
    /\ lifecycle' = [lifecycle EXCEPT ![i] = "mounted"]
    /\ listeners' = listeners \o
                      << [ScrollListener(i) EXCEPT !.passive = TRUE],
                         [ScrollListener(i) EXCEPT !.passive = TRUE] >>
    /\ UNCHANGED <<scrolled, rendered, scrollY, pending, queue, seen, called,
                   failed, serving>>

\* The onMounted hook: one call of window.addEventListener.
OnMounted(i) ==
    /\ Idle
    /\ lifecycle[i] = "setup"
    /\ lifecycle' = [lifecycle EXCEPT ![i] = "mounted"]
    /\ listeners' = Append(listeners, ScrollListener(i))
    /\ UNCHANGED <<scrolled, rendered, scrollY, pending, queue, seen, called,
                   failed, serving>>

\* The component is unmounted. The script registers no onUnmounted /
\* onBeforeUnmount hook, so nothing of the component runs: the listener
\* stays on the window and its closure keeps the ref alive.
Unmount(i) ==
    /\ Idle
    /\ lifecycle[i] = "mounted"
    /\ lifecycle' = [lifecycle EXCEPT ![i] = "unmounted"]
    /\ UNCHANGED <<scrolled, rendered, listeners, scrollY, pending, queue,
                   seen, called, failed, serving>>

\* The page is scrolled to offset y (or a scroll event is fired at the
\* current offset); the scroll event is dispatched later.
UserScroll(y) ==
    /\ Idle
    /\ scrollY' = y
    /\ pending' = TRUE
    /\ UNCHANGED <<lifecycle, scrolled, rendered, listeners, queue, seen,
                   called, failed, serving>>

\* The browser starts to dispatch the scroll event to the window: the
\* listeners registered now are the ones that will be called.
DispatchScroll ==
    /\ Idle
    /\ pending
    /\ pending' = FALSE
    /\ queue' = SelectSeq(listeners,
                  LAMBDA l : l.target = "window" /\ l.type = "scroll")
    /\ called' = {}
    /\ UNCHANGED <<lifecycle, scrolled, rendered, listeners, scrollY, seen,
                   failed, serving>>

\* Mutants of Callback: `!== 0`; a flag that is only ever raised; a
\* callback that also scrolls the page back to the top.
CallbackNonZero(i) ==
    /\ scrolled' = [scrolled EXCEPT ![i] = (scrollY # 0)]
    /\ UNCHANGED <<lifecycle, listeners, scrollY, failed>>

CallbackSticky(i) ==
    /\ scrolled' = [scrolled EXCEPT ![i] = (scrolled[i] \/ scrollY > 0)]
    /\ UNCHANGED <<lifecycle, listeners, scrollY, failed>>

CallbackScrollsToTop(i) ==
    /\ scrolled' = [scrolled EXCEPT ![i] = (scrollY > 0)]
    /\ scrollY' = 0
    /\ UNCHANGED <<lifecycle, listeners, failed>>

\* The listener body of instance i: `scrolled.value = window.scrollY > 0`.
\* A comparison of a number and an assignment to a ref: nothing can throw.
Callback(i) ==
    /\ scrolled' = [scrolled EXCEPT ![i] = (scrollY > 0)]
    /\ UNCHANGED <<lifecycle, listeners, scrollY, failed>>

\* The dispatch calls the next listener; the instance is rendered again
\* from the new value of the flag.
RunListener ==
    /\ queue # <<>>
    /\ LET i == Head(queue).owner IN
         /\ Callback(i)
         /\ rendered' = [rendered EXCEPT ![i] = Render(scrolled'[i])]
         /\ seen' = [seen EXCEPT ![i] = LastTwo(Append(seen[i], scrollY))]
         /\ called' = called \cup {i}
    /\ queue' = Tail(queue)
    /\ UNCHANGED <<pending, serving>>

\* `npm run dev`: nuxt dev listens on the port of devServer.port.
StartDevServer ==
    /\ Idle
    /\ serving = <<>>
    /\ serving' = <<devServerPort>>
    /\ UNCHANGED <<lifecycle, scrolled, rendered, listeners, scrollY, pending,
                   queue, seen, called, failed>>

Next ==
    \/ \E i \in Inst : Setup(i)
    \/ \E i \in Inst : OnMounted(i)
    \/ \E i \in Inst : Unmount(i)
    \/ \E y \in Offsets : UserScroll(y)
    \/ DispatchScroll
    \/ RunListener
    \/ StartDevServer

Spec == Init /\ [][Next]_vars

\* ------------------------------------------------------------ type check
TypeOK ==
    /\ lifecycle \in [Inst -> {"none", "setup", "mounted", "unmounted"}]
    /\ scrolled \in [Inst -> BOOLEAN]
    /\ scrollY \in Offsets
    /\ pending \in BOOLEAN
    /\ failed \in BOOLEAN
    /\ \A i \in Inst : Len(seen[i]) <= 2
    /\ called \subseteq Inst
    /\ Len(serving) <= 1

\* --------------------------------------------------------------- claims
\* A step of the dispatch that calls the listener at the head of the queue.
CallbackStep == queue # <<>> /\ queue' = Tail(queue)

HasMounted(i) == lifecycle[i] \in {"mounted", "unmounted"}

\* C1: once the component is mounted, every scroll event reaches its
\* listener, and the listener sets the flag to true if window.scrollY at the
\* time of the call exceeds zero and to false otherwise.
C1_ScrollSetsFlag ==
    [][ /\ (pending /\ ~pending') =>
              \A i \in Inst : lifecycle[i] = "mounted" => i \in Owners(queue')
        /\ CallbackStep =>
              scrolled'[Head(queue).owner] = (scrollY > 0) ]_vars

\* A mounted instance whose listener saw a positive offset and then offset 0:
\* the flag was raised and is false again.
C1_Witness ==
    \E i \in Inst :
        /\ lifecycle[i] = "mounted"
        /\ Len(seen[i]) = 2 /\ seen[i][1] > 0 /\ seen[i][2] = 0
        /\ scrolled[i] = FALSE

\* C2 (as claimed): in every state in which an instance is mounted, its flag
\* is true exactly when the current scroll offset is greater than zero. The
\* claim covers every state; it is stated here for the states it is least
\* demanding in, those in which no scroll event is waiting or being
\* dispatched, so that a violation is a flag that no event will correct.
C2_FlagReflectsPosition ==
    \A i \in Inst :
        (lifecycle[i] = "mounted" /\ ~pending /\ Idle) =>
            (scrolled[i] = (scrollY > 0))

\* C3 (as claimed): a listener registered by the component is on the window
\* only while its instance is mounted, so no scroll event is delivered to an
\* unmounted instance and mount/unmount cycles leave at most one listener per
\* mounted instance.
C3_ListenerEndsWithComponent ==
    /\ \A k \in 1..Len(listeners) : lifecycle[listeners[k].owner] = "mounted"
    /\ \A k \in 1..Len(queue) : lifecycle[queue[k].owner] = "mounted"

\* C4 (as claimed): every listener of the component is a passive listener of
\* the window's scroll event, and each mount attached exactly one.
C4_PassiveOncePerMount ==
    /\ \A k \in 1..Len(listeners) :
          /\ listeners[k].target = "window"
          /\ listeners[k].type = "scroll"
          /\ listeners[k].passive = TRUE
    /\ \A i \in Inst :
          Cardinality(ListenersOf(i)) = IF HasMounted(i) THEN 1 ELSE 0

\* C4 (amended): every listener of the component is a listener of the
\* window's scroll event registered without options, hence not passive, and
\* each mount attached exactly one.
C4_NotPassiveOncePerMount ==
    /\ \A k \in 1..Len(listeners) :
          /\ listeners[k].target = "window"
          /\ listeners[k].type = "scroll"
          /\ listeners[k].passive = FALSE
    /\ \A i \in Inst :
          Cardinality(ListenersOf(i)) = IF HasMounted(i) THEN 1 ELSE 0

\* Two instances have been mounted and the window holds their two listeners.
C4_Witness ==
    /\ Len(listeners) = 2
    /\ \E i, j \in Inst :
          i # j /\ lifecycle[i] = "mounted" /\ lifecycle[j] = "mounted"

\* C5: the rendered header does not depend on the flag: any two rendered
\* instances show the same markup, whatever scroll events each has seen and
\* whatever the value of its flag.
C5_RenderIgnoresFlag ==
    \A i, j \in Inst :
        (lifecycle[i] # "none" /\ lifecycle[j] # "none") =>
            rendered[i] = rendered[j]

\* Two rendered instances whose flags differ, one of them rendered again
\* after a scroll event.
C5_Witness ==
    \E i, j \in Inst :
        /\ lifecycle[i] # "none" /\ lifecycle[j] # "none"
        /\ seen[i] # <<>>
        /\ scrolled[i] = TRUE /\ scrolled[j] = FALSE

\* C6: a call of the scroll listener writes nothing but the flag of its own
\* instance (and the markup rendered from it): the scroll offset, the
\* listener list, the lifecycle, the pending event, the other instances and
\* the dev server are unchanged, and no call fails.
C6_CallbackFrame ==
    [][ CallbackStep =>
          /\ UNCHANGED <<scrollY, listeners, lifecycle, pending, serving>>
          /\ \A j \in Inst \ {Head(queue).owner} :
                scrolled'[j] = scrolled[j] /\ rendered'[j] = rendered[j]
          /\ ~failed' ]_vars

\* A listener has been called at the largest and then at the negative
\* offset, and nothing failed.
C6_Witness ==
    /\ ~failed
    /\ scrollY = -1
    /\ \E i \in Inst : seen[i] = <<MaxY, -1>>

\* C7: every rendered header shows exactly the five anchors #home, #about,
\* #projects, #skills, #contact, in that order, in every state.
C7_NavTargets ==
    \A i \in Inst :
        lifecycle[i] # "none" =>
            rendered[i].links =
                <<"#home", "#about", "#projects", "#skills", "#contact">>

\* A header rendered again while its flag is true.
C7_Witness ==
    \E i \in Inst :
        /\ scrolled[i] = TRUE
        /\ seen[i] # <<>>
        /\ Len(rendered[i].links) = 5

\* C8 (as claimed): a running dev server listens on port 3000.
C8_ServesOn3000 == serving # <<>> => serving[1] = 3000

\* C9: the flag is false from setup until the first call of the instance's
\* listener, and before onMounted has run the instance has no listener and
\* has seen no scroll event.
C9_FalseUntilFirstEvent ==
    \A i \in Inst :
        /\ seen[i] = <<>> => scrolled[i] = FALSE
        /\ lifecycle[i] \in {"none", "setup"} =>
              (ListenersOf(i) = {} /\ seen[i] = <<>>)

\* An instance that is set up but not mounted while the page has been
\* scrolled down and the scroll event has been dispatched to a mounted one.
C9_Witness ==
    \E i, j \in Inst :
        /\ lifecycle[i] = "setup" /\ scrolled[i] = FALSE
        /\ scrollY > 0 /\ ~pending /\ Idle
        /\ j \in called /\ scrolled[j] = TRUE

\* C10: the flag depends only on the offset its listener read last (so the
\* same offset delivered twice gives the same flag as once), and all the
\* instances called by one dispatch have equal flags.
C10_HistoryIndependent ==
    /\ \A i \in Inst : seen[i] # <<>> => (scrolled[i] = (Last(seen[i]) > 0))
    /\ \A i, j \in called : scrolled[i] = scrolled[j]

\* A dispatch has called two instances; one has seen the same positive
\* offset twice, the other, mounted later, has seen it once.
C10_Witness ==
    /\ Idle
    /\ \E i, j \in called :
          /\ i # j
          /\ Len(seen[i]) = 2 /\ seen[i][1] = seen[i][2] /\ seen[i][2] > 0
          /\ Len(seen[j]) = 1
          /\ scrolled[i] = TRUE /\ scrolled[j] = TRUE

====
